---- MODULE Spec2Model ----
(***************************************************************************)
(* Resilient verification core of the ParaBank Playwright suite:           *)
(*   - RegisterPage.registerUser: the bounded, signal-driven retry loop    *)
(*     around navigate / fill / submit / inspect;                          *)
(*   - DataGenerator.generateSequentialUsername: the per-attempt username; *)
(*   - ApiHelper.findTransactionsByAmount / getAccountDetails /            *)
(*     getTransactions: the endpoint probes over captured and fallback     *)
(*     candidates, and ApiHelper.storeCapturedEndpoint feeding them.       *)
(***************************************************************************)
EXTENDS Integers, Sequences, FiniteSets, TLC

(***************************************************************************)
(* Program constants                                                       *)
(***************************************************************************)
\* RegisterPage.registerUser: const maxAttempts = 10
maxAttempts == 10

\* RegisterPage.fillRegistrationForm: the fields array has 11 entries
NumFields == 11

\* DataGenerator.generateSequentialUsername: .substring(0, 32)
MaxUsernameLen == 32

(***************************************************************************)
(* Bounds of the model                                                     *)
(***************************************************************************)
\* how many different values crypto.randomBytes(6).toString('hex') may take
NumRandomHex == 1

\* how many tests call registerUser one after the other
MaxRuns == 2

\* how many entries the captured-call log may hold
MaxCaptured == 2

\* longest array handed to analyzeJsonResponse directly
MaxArrayLen == 2

\* how many times analyzeJsonResponse is called on the same input
MaxClassify == 2

(***************************************************************************)
(* Entropy source                                                          *)
(***************************************************************************)
\* crypto.randomBytes(6).toString('hex'): 12 hexadecimal characters
HexPool == <<"0a1b2c3d4e5f", "a1a2a3a4a5a1", "ffffffffffa1", "00000000001a">>

RandomHex == {HexPool[i] : i \in 1..NumRandomHex}

\* process.hrtime.bigint().toString().slice(-8): at most 8 decimal digits
NanoTimes == {"12345678"}

\* JavaScript String.prototype.substring(0, n)
Substring0(s, n) == IF Len(s) <= n THEN s ELSE SubSeq(s, 1, n)

\* attempt > 0 ? `a${attempt}` : ''
attemptSuffix(n) == IF n > 0 THEN "a" \o ToString(n) ELSE ""

\* generateSequentialUsername without the attempt suffix
generateSequentialUsernameNoSuffix(n, randomHex, nanoTime) ==
    Substring0("usr" \o randomHex \o nanoTime, MaxUsernameLen)

\* DataGenerator.generateSequentialUsername(attempt) for one draw of the
\* random bytes and of the clock
generateSequentialUsername(n, randomHex, nanoTime) ==
    Substring0("usr" \o randomHex \o nanoTime \o attemptSuffix(n), MaxUsernameLen)

\* DataGenerator.generateUniqueUsername: `u${hash}${now.toString().slice(-6)}`
\* with hash = 12 hexadecimal characters of a sha256 digest
generateUniqueUsername(hash, now6) == "u" \o hash \o now6

\* DataGenerator.generateUserData: the identity handed to registerUser by the
\* tests (profile fields other than username and password are never written
\* by registerUser and are left out)
generateUserData(hash, now6) ==
    [username |-> generateUniqueUsername(hash, now6), password |-> "TestPass123!"]

(***************************************************************************)
(* JavaScript strings and numbers                                          *)
(***************************************************************************)
\* the character of s at position i (1-based), "" beyond the end
CharAt(s, i) == IF i >= 1 /\ i <= Len(s) THEN SubSeq(s, i, i) ELSE ""

\* String.prototype.includes
Includes(s, sub) ==
    \E i \in 1..(Len(s) + 1) :
        i + Len(sub) - 1 <= Len(s) /\ SubSeq(s, i, i + Len(sub) - 1) = sub

StartsWithAt(s, i, pre) ==
    i + Len(pre) - 1 <= Len(s) /\ SubSeq(s, i, i + Len(pre) - 1) = pre

DigitChars == <<"0", "1", "2", "3", "4", "5", "6", "7", "8", "9">>

IsDigit(c) == \E d \in 1..10 : DigitChars[d] = c

DigitVal(c) == (CHOOSE d \in 1..10 : DigitChars[d] = c) - 1

IsHexDigit(c) ==
    IsDigit(c) \/ c \in {"a", "b", "c", "d", "e", "f", "A", "B", "C", "D", "E", "F"}

IsSpace(c) == c \in {" ", "\t", "\n", "\r"}

\* index of the first character that is not white space
RECURSIVE SkipSpaces(_, _)
SkipSpaces(s, i) == IF IsSpace(CharAt(s, i)) THEN SkipSpaces(s, i + 1) ELSE i

\* index after an optional sign
SkipSign(s, i) == IF CharAt(s, i) \in {"+", "-"} THEN i + 1 ELSE i

\* index after the run of decimal digits that starts at i
RECURSIVE SkipDigits(_, _)
SkipDigits(s, i) == IF IsDigit(CharAt(s, i)) THEN SkipDigits(s, i + 1) ELSE i

\* value of the decimal digits s[i..j-1]
RECURSIVE DigitsValue(_, _, _)
DigitsValue(s, i, j) ==
    IF j <= i THEN 0 ELSE 10 * DigitsValue(s, i, j - 1) + DigitVal(CharAt(s, j - 1))

NaN == [nan |-> TRUE, inf |-> FALSE, milli |-> 0]

\* a finite number, kept in thousandths
Num(m) == [nan |-> FALSE, inf |-> FALSE, milli |-> m]

Infinite(sign) == [nan |-> FALSE, inf |-> TRUE, milli |-> sign]

\* thousandths given by the first three digits of the fraction s[i..j-1]
FractionMilli(s, i, j) ==
    100 * (IF i < j THEN DigitVal(CharAt(s, i)) ELSE 0)
    + 10 * (IF i + 1 < j THEN DigitVal(CharAt(s, i + 1)) ELSE 0)
    + (IF i + 2 < j THEN DigitVal(CharAt(s, i + 2)) ELSE 0)

\* parseFloat(string): white space, sign, then Infinity or the longest
\* decimal prefix (digits, optional fraction); NaN when there is none.
\* Exponents are not in the strings of this model.
parseFloat(s) ==
    LET a == SkipSpaces(s, 1)
        b == SkipSign(s, a)
        sign == IF CharAt(s, a) = "-" THEN -1 ELSE 1
        c == SkipDigits(s, b)
        d == IF CharAt(s, c) = "." THEN SkipDigits(s, c + 1) ELSE c
    IN  IF StartsWithAt(s, b, "Infinity") THEN Infinite(sign)
        ELSE IF c = b /\ d <= c + 1 THEN NaN
        ELSE Num(sign * (1000 * DigitsValue(s, b, c) + FractionMilli(s, c + 1, d)))

\* parseInt(string) without radix: white space, sign, optional 0x prefix,
\* then the longest run of digits; NaN when there is none
parseInt(s) ==
    LET a == SkipSpaces(s, 1)
        b == SkipSign(s, a)
        sign == IF CharAt(s, a) = "-" THEN -1 ELSE 1
        c == SkipDigits(s, b)
    IN  IF StartsWithAt(s, b, "0x") \/ StartsWithAt(s, b, "0X")
        THEN IF IsHexDigit(CharAt(s, b + 2)) THEN Num(0) ELSE NaN
        ELSE IF c = b THEN NaN
        ELSE Num(sign * 1000 * DigitsValue(s, b, c))

\* isNaN(number)
isNaN(n) == n.nan

\* Math.abs
Abs(n) == IF n.nan THEN n
          ELSE IF n.inf THEN Infinite(1)
          ELSE Num(IF n.milli < 0 THEN -n.milli ELSE n.milli)

\* Math.abs(a - b) < 0.01 for two numbers (comparisons with NaN are false)
CloserThanCent(a, b) ==
    /\ ~a.nan /\ ~b.nan
    /\ ~a.inf /\ ~b.inf
    /\ (IF a.milli >= b.milli THEN a.milli - b.milli ELSE b.milli - a.milli) < 10

(***************************************************************************)
(* Parsed JSON values                                                      *)
(***************************************************************************)
JNull == [t |-> "null"]

JString(s) == [t |-> "string", s |-> s]

\* a JSON number, s being String(number)
JNumber(s) == [t |-> "number", s |-> s]

\* an object: its keys in Object.keys order and the value of each key
JObject(keys, val) == [t |-> "object", keys |-> keys, val |-> val]

JArray(items) == [t |-> "array", items |-> items]

\* typeof value
typeof(v) == IF v.t \in {"null", "object", "array"} THEN "object" ELSE v.t

\* String(value), as parseFloat and parseInt see their argument
ToJsString(v) ==
    IF v.t \in {"string", "number"} THEN v.s
    ELSE IF v.t = "null" THEN "null"
    ELSE IF v.t = "array" THEN ""
    ELSE "[object Object]"

\* truthiness of a value
Truthy(v) ==
    CASE v.t = "null" -> FALSE
      [] v.t = "string" -> v.s # ""
      [] v.t = "number" -> ~(parseFloat(v.s).nan \/ (~parseFloat(v.s).inf /\ parseFloat(v.s).milli = 0))
      [] OTHER -> TRUE

SeqToSet(seq) == {seq[i] : i \in 1..Len(seq)}

\* Object.keys(value) throws a TypeError on null
KeysThrows(v) == v.t = "null"

\* Object.keys(value) of an object; a number has no own keys (strings and
\* nested arrays are not among the first items of this model)
Keys(v) == IF v.t = "object" THEN v.keys ELSE <<>>

\* value.field !== undefined
HasField(v, field) == v.t = "object" /\ field \in SeqToSet(v.keys)

(***************************************************************************)
(* ApiHelper.analyzeJsonResponse                                           *)
(***************************************************************************)
\* const transactionFields = [...]
transactionFields == <<"id", "accountId", "amount", "date", "type", "description">>

\* const accountFields = [...]
accountFields == <<"id", "customerId", "type", "balance">>

\* !isNaN(Date.parse(value)) for the date strings of this model: an ISO
\* calendar date yyyy-mm-dd, alone or followed by a time part
IsValidDate(v) ==
    LET s == ToJsString(v)
        month == DigitsValue(s, 6, 8)
        day == DigitsValue(s, 9, 11)
    IN  /\ v.t = "string"
        /\ Len(s) >= 10
        /\ \A i \in {1, 2, 3, 4, 6, 7, 9, 10} : IsDigit(CharAt(s, i))
        /\ CharAt(s, 5) = "-" /\ CharAt(s, 8) = "-"
        /\ month \in 1..12 /\ day \in 1..31
        /\ (Len(s) = 10 \/ CharAt(s, 11) = "T")

\* presence checks that report only the fields found
PresenceChecksFoundOnly(expected, item) ==
    LET Found(f) == HasField(item, f)
        found == SelectSeq(expected, Found)
    IN  [i \in 1..Len(found) |->
            [field |-> found[i], status |-> "PASS", value |-> item.val[found[i]]]]

\* the presence checks: fields.includes(field) ? PASS : MISSING
PresenceChecks(expected, item) ==
    [i \in 1..Len(expected) |->
        IF HasField(item, expected[i])
        THEN [field |-> expected[i], status |-> "PASS", value |-> item.val[expected[i]]]
        ELSE [field |-> expected[i], status |-> "MISSING",
              reason |-> "Field not found in response"]]

\* if (firstItem.amount !== undefined) { parseFloat ... }
AmountCheck(item) ==
    IF ~HasField(item, "amount") THEN <<>>
    ELSE LET amount == parseFloat(ToJsString(item.val["amount"]))
         IN  IF ~isNaN(amount)
             THEN <<[field |-> "amount", status |-> "PASS", value |-> amount,
                     validation |-> "valid_number"]>>
             ELSE <<[field |-> "amount", status |-> "FAIL", value |-> item.val["amount"],
                     reason |-> "not_a_number"]>>

\* if (firstItem.accountId !== undefined) { parseInt ... }
AccountIdCheck(item) ==
    IF ~HasField(item, "accountId") THEN <<>>
    ELSE LET accountId == parseInt(ToJsString(item.val["accountId"]))
         IN  IF ~isNaN(accountId)
             THEN <<[field |-> "accountId", status |-> "PASS", value |-> accountId,
                     validation |-> "valid_number"]>>
             ELSE <<[field |-> "accountId", status |-> "FAIL",
                     value |-> item.val["accountId"], reason |-> "not_a_number"]>>

\* if (firstItem.date !== undefined) { Date.parse ... }
DateCheck(item) ==
    IF ~HasField(item, "date") THEN <<>>
    ELSE IF IsValidDate(item.val["date"])
         THEN <<[field |-> "date", status |-> "PASS", value |-> item.val["date"],
                 validation |-> "valid_date"]>>
         ELSE <<[field |-> "date", status |-> "FAIL", value |-> item.val["date"],
                 reason |-> "invalid_date"]>>

\* analysis.validations.filter(v => v.status === status).length
CountStatus(validations, status) ==
    Cardinality({i \in 1..Len(validations) : validations[i].status = status})

\* analysis.summary = { passed, failed, missing, info }
Summarize(validations) ==
    [passed |-> CountStatus(validations, "PASS"),
     failed |-> CountStatus(validations, "FAIL"),
     missing |-> CountStatus(validations, "MISSING"),
     info |-> CountStatus(validations, "INFO")]

\* analysis.structure: the fields of the inspected value with type and value
Structure(v) ==
    [k \in SeqToSet(Keys(v)) |-> [type |-> typeof(v.val[k]), value |-> v.val[k]]]

\* the validations without the entry for an empty array
ValidationsNoEmptyInfo(jsonData) ==
    IF jsonData.t = "array"
    THEN IF Len(jsonData.items) > 0
         THEN PresenceChecks(transactionFields, jsonData.items[1])
              \o AmountCheck(jsonData.items[1])
              \o AccountIdCheck(jsonData.items[1])
              \o DateCheck(jsonData.items[1])
         ELSE <<>>
    ELSE IF jsonData.t = "object"
    THEN PresenceChecks(accountFields, jsonData)
    ELSE <<[field |-> "response", status |-> "INFO", value |-> jsonData,
            type |-> typeof(jsonData)]>>

\* the validations of a value that is not null
Validations(jsonData) ==
    IF jsonData.t = "array"
    THEN IF Len(jsonData.items) > 0
         THEN PresenceChecks(transactionFields, jsonData.items[1])
              \o AmountCheck(jsonData.items[1])
              \o AccountIdCheck(jsonData.items[1])
              \o DateCheck(jsonData.items[1])
         ELSE <<[field |-> "array", status |-> "INFO", reason |-> "Empty array response"]>>
    ELSE IF jsonData.t = "object"
    THEN PresenceChecks(accountFields, jsonData)
    ELSE <<[field |-> "response", status |-> "INFO", value |-> jsonData,
            type |-> typeof(jsonData)]>>

\* analyzeJsonResponse without the test `jsonData === null`: null reaches
\* the object branch, where Object.keys(null) throws
analyzeJsonResponseNoNullTest(jsonData, endpoint) ==
    IF jsonData.t = "null" \/ (jsonData.t = "array" /\ Len(jsonData.items) > 0
                                /\ KeysThrows(jsonData.items[1]))
    THEN [threw |-> TRUE]
    ELSE LET inspected == IF jsonData.t = "array"
                          THEN IF Len(jsonData.items) > 0 THEN jsonData.items[1]
                               ELSE JNumber("0")
                          ELSE jsonData
         IN  [threw |-> FALSE, endpoint |-> endpoint, type |-> typeof(jsonData),
              isArray |-> jsonData.t = "array",
              fields |-> Keys(inspected), structure |-> Structure(inspected),
              data |-> jsonData,
              validations |-> Validations(jsonData),
              summary |-> Summarize(Validations(jsonData))]

\* analyzeJsonResponse(jsonData, endpoint): threw marks the TypeError of
\* Object.keys(firstItem) on a null first item; the null verdict is returned
\* before the summary is computed
analyzeJsonResponse(jsonData, endpoint) ==
    IF jsonData.t = "null"
    THEN [threw |-> FALSE, endpoint |-> endpoint, type |-> "object", isArray |-> FALSE,
          fields |-> <<>>, structure |-> <<>>, data |-> jsonData,
          validations |-> <<[field |-> "response", status |-> "FAIL",
                             reason |-> "Response is null"]>>]
    ELSE IF jsonData.t = "array" /\ Len(jsonData.items) > 0
            /\ KeysThrows(jsonData.items[1])
    THEN [threw |-> TRUE]
    ELSE LET inspected == IF jsonData.t = "array"
                          THEN IF Len(jsonData.items) > 0 THEN jsonData.items[1]
                               ELSE JNumber("0")
                          ELSE jsonData
         IN  [threw |-> FALSE, endpoint |-> endpoint, type |-> typeof(jsonData),
              isArray |-> jsonData.t = "array",
              fields |-> Keys(inspected), structure |-> Structure(inspected),
              data |-> jsonData,
              validations |-> Validations(jsonData),
              summary |-> Summarize(Validations(jsonData))]

(***************************************************************************)
(* State                                                                   *)
(***************************************************************************)
VARIABLES
    \* ---- RegisterPage.registerUser ----
    userData,          \* the caller's userData object (username, password)
    attempt,           \* the loop variable `attempt`
    pc,                \* position inside the loop body, "done" after return
    returned,          \* "none" while running, then "true" or "false"
    hasUsernameError,  \* const hasUsernameError of the current attempt
    hasPasswordError,  \* const hasPasswordError of the current attempt
    isSuccess,         \* const isSuccess of the current attempt
    thrown,            \* TRUE when an exception left registerUser
    identities,        \* username of every attempt started, in order
    acted,             \* attempt number of the latest navigate/fill/submit
    lastSignal,        \* signal of the latest finished attempt
    earlier,           \* signal shared by all attempts before the latest one
    run,               \* number of the current call of registerUser
    priorFailure,      \* signal that ended an earlier call returning false
    \* ---- ApiHelper ----
    capturedEndpoints, \* this.capturedEndpoints
    jsonResponses,     \* this.jsonResponses
    probeKind,         \* the probe method that is running or ran last
    probePc,           \* "idle", "captured", "fallback" or "done"
    candidates,        \* const transactionEndpoints of the running probe
    cursor,            \* position of the for...of loop in its list
    probeResult,       \* the value the probe returned
    probeThrown,       \* TRUE when an exception left the probe
    issued,            \* the candidates tried by the probe, in order
    firstOk,           \* position in issued of the first 2xx parseable answer
    failedAll,         \* every candidate tried so far was a failed candidate
    lastFailed,        \* the candidate tried last was a failed candidate
    \* ---- BillPayPage and the test that drives it ----
    listeners,         \* request/response listener pairs registered on the page
    billPc,            \* "idle", "paying" inside payBill, "paid" after it
    logAtStart,        \* length of capturedEndpoints when the current test began
    observed,          \* url and method of the page event behind each log entry
    \* ---- direct calls of analyzeJsonResponse ----
    rawInput,          \* the jsonData argument
    verdicts,          \* the values returned for rawInput, in call order
    calledAt           \* at each of these calls: was a call captured, had a probe returned

regVars == <<userData, attempt, pc, returned, hasUsernameError, hasPasswordError,
             isSuccess, thrown, identities, acted, lastSignal, earlier>>

runVars == <<run, priorFailure>>

logVars == <<capturedEndpoints, jsonResponses>>

probeVars == <<probeKind, probePc, candidates, cursor, probeResult, probeThrown,
               issued, firstOk, failedAll, lastFailed>>

pageVars == <<listeners, billPc, logAtStart, observed>>

classifyVars == <<rawInput, verdicts, calledAt>>

vars == <<regVars, runVars, logVars, probeVars, pageVars, classifyVars>>

Signals == {"conflict", "password", "success", "undetermined", "error"}

(***************************************************************************)
(* RegisterPage.registerUser                                               *)
(***************************************************************************)
\* the userData objects the tests build in beforeEach
FreshUserData == {generateUserData(h, "123456") : h \in {"0a1b2c3d4e5f"}}

\* entry of registerUser: `for (let attempt = 1; ...`
InitRegister ==
    /\ userData \in FreshUserData
    /\ attempt = 1
    /\ pc = "navigate"
    /\ returned = "none"
    /\ hasUsernameError = FALSE
    /\ hasPasswordError = FALSE
    /\ isSuccess = FALSE
    /\ thrown = FALSE
    /\ identities = <<userData.username>>
    /\ acted = 0
    /\ lastSignal = "none"
    /\ earlier = "none"

\* the signal of an attempt in the order conflict, password error, success
Classify(u, p, s) ==
    IF u THEN "conflict"
    ELSE IF p THEN "password"
    ELSE IF s THEN "success"
    ELSE "undetermined"

\* bookkeeping at the end of an attempt whose signal is sig
EndAttempt(sig) ==
    /\ lastSignal' = sig
    /\ earlier' = IF lastSignal = "none" \/ earlier = lastSignal THEN earlier
                  ELSE IF earlier = "none" THEN lastSignal
                  ELSE "mixed"

\* LoopBack with the loop test off by one (attempt <= maxAttempts + 1)
LoopBackOffByOne(newName) ==
    /\ attempt' = attempt + 1
    /\ userData' = [userData EXCEPT !.username = newName]
    /\ hasUsernameError' = FALSE
    /\ hasPasswordError' = FALSE
    /\ isSuccess' = FALSE
    /\ IF attempt + 1 <= maxAttempts + 1
       THEN /\ pc' = "navigate"
            /\ returned' = "none"
            /\ identities' = Append(identities, newName)
       ELSE /\ pc' = "done"
            /\ returned' = "false"
            /\ identities' = identities

\* `continue` / end of the loop body: attempt++ and the test attempt <= maxAttempts;
\* newName is userData.username as left by the body
LoopBack(newName) ==
    /\ attempt' = attempt + 1
    /\ userData' = [userData EXCEPT !.username = newName]
    /\ hasUsernameError' = FALSE
    /\ hasPasswordError' = FALSE
    /\ isSuccess' = FALSE
    /\ IF attempt + 1 <= maxAttempts
       THEN /\ pc' = "navigate"
            /\ returned' = "none"
            /\ identities' = Append(identities, newName)
       ELSE /\ pc' = "done"
            /\ returned' = "false"
            /\ identities' = identities

\* a catch block that throws the error on to the caller of registerUser
CatchRethrows ==
    /\ EndAttempt("error")
    /\ thrown' = TRUE
    /\ pc' = "done"
    /\ UNCHANGED <<userData, attempt, returned, hasUsernameError, hasPasswordError,
                   isSuccess, identities>>

\* catch (error) { if (attempt < maxAttempts) userData.username = ... }
Catch ==
    /\ EndAttempt("error")
    /\ thrown' = thrown
    /\ \E rh \in RandomHex, nt \in NanoTimes :
          LoopBack(IF attempt < maxAttempts
                   THEN generateSequentialUsername(attempt, rh, nt)
                   ELSE userData.username)

\* await this.navigateToRegister()
Navigate ==
    /\ pc = "navigate"
    /\ acted' = attempt
    /\ UNCHANGED <<runVars, logVars, probeVars, pageVars, classifyVars>>
    /\ \E ok \in BOOLEAN :
          IF ok
          THEN /\ pc' = "fill"
               /\ UNCHANGED <<userData, attempt, returned, hasUsernameError,
                              hasPasswordError, isSuccess, thrown, identities,
                              lastSignal, earlier>>
          ELSE Catch

\* await this.fillRegistrationForm(userData): failAt = 0 when all fields are
\* filled, otherwise the index of the first field whose fill throws
Fill ==
    /\ pc = "fill"
    /\ acted' = attempt
    /\ UNCHANGED <<runVars, logVars, probeVars, pageVars, classifyVars>>
    /\ \E failAt \in 0..NumFields :
          IF failAt = 0
          THEN /\ pc' = "submit"
               /\ UNCHANGED <<userData, attempt, returned, hasUsernameError,
                              hasPasswordError, isSuccess, thrown, identities,
                              lastSignal, earlier>>
          ELSE Catch

\* await this.submitRegistration()
Submit ==
    /\ pc = "submit"
    /\ acted' = attempt
    /\ UNCHANGED <<runVars, logVars, probeVars, pageVars, classifyVars>>
    /\ \E ok \in BOOLEAN :
          IF ok
          THEN /\ pc' = "inspect"
               /\ UNCHANGED <<userData, attempt, returned, hasUsernameError,
                              hasPasswordError, isSuccess, thrown, identities,
                              lastSignal, earlier>>
          ELSE Catch

\* Inspect whose conflict branch continues without a new username
InspectConflictKeepsName ==
    /\ pc = "inspect"
    /\ UNCHANGED <<acted, thrown, runVars, logVars, probeVars, pageVars, classifyVars>>
    /\ \E u \in BOOLEAN, p \in BOOLEAN :
          IF (u \/ p) /\ attempt < maxAttempts
          THEN /\ EndAttempt(IF u THEN "conflict" ELSE "password")
               /\ LoopBack(userData.username)
          ELSE /\ pc' = "verify"
               /\ hasUsernameError' = u
               /\ hasPasswordError' = p
               /\ UNCHANGED <<userData, attempt, returned, isSuccess, identities,
                              lastSignal, earlier>>

\* hasUsernameExistsError(), hasPasswordError() and the two `if` blocks
Inspect ==
    /\ pc = "inspect"
    /\ UNCHANGED <<acted, thrown, runVars, logVars, probeVars, pageVars, classifyVars>>
    /\ \E u \in BOOLEAN, p \in BOOLEAN :
          IF u /\ attempt < maxAttempts
          THEN /\ EndAttempt("conflict")
               /\ \E rh \in RandomHex, nt \in NanoTimes :
                     LoopBack(generateSequentialUsername(attempt, rh, nt))
          ELSE IF p /\ attempt < maxAttempts
          THEN /\ EndAttempt("password")
               /\ LoopBack(userData.username)
          ELSE /\ pc' = "verify"
               /\ hasUsernameError' = u
               /\ hasPasswordError' = p
               /\ UNCHANGED <<userData, attempt, returned, isSuccess, identities,
                              lastSignal, earlier>>

\* RegisterPage.verifyRegistrationSuccess: URL pattern, success message text,
\* account navigation elements; any error inside is caught and yields false
verifyRegistrationSuccess(urlMatch, textMatch, elementMatch, err) ==
    IF err THEN FALSE ELSE urlMatch \/ textMatch \/ elementMatch

\* Verify without the `return true`: a detected success falls through to the
\* end of the loop body
VerifyNoReturn ==
    /\ pc = "verify"
    /\ UNCHANGED <<acted, thrown, runVars, logVars, probeVars, pageVars, classifyVars>>
    /\ \E urlMatch \in BOOLEAN, textMatch \in BOOLEAN, elementMatch \in BOOLEAN,
          err \in BOOLEAN :
          LET s == verifyRegistrationSuccess(urlMatch, textMatch, elementMatch, err)
          IN  /\ EndAttempt(Classify(hasUsernameError, hasPasswordError, s))
              /\ \E rh \in RandomHex, nt \in NanoTimes :
                    LET newName == IF attempt < maxAttempts
                                   THEN generateSequentialUsername(attempt, rh, nt)
                                   ELSE userData.username
                    IN  /\ attempt' = attempt + 1
                        /\ userData' = [userData EXCEPT !.username = newName]
                        /\ UNCHANGED <<hasUsernameError, hasPasswordError>>
                        /\ isSuccess' = s
                        /\ IF attempt + 1 <= maxAttempts
                           THEN /\ pc' = "navigate"
                                /\ returned' = "none"
                                /\ identities' = Append(identities, newName)
                           ELSE /\ pc' = "done"
                                /\ returned' = "false"
                                /\ identities' = identities

\* Verify that draws a new username before it returns true
VerifyRenamesOnSuccess ==
    /\ pc = "verify"
    /\ UNCHANGED <<acted, thrown, runVars, logVars, probeVars, pageVars, classifyVars>>
    /\ \E urlMatch \in BOOLEAN, textMatch \in BOOLEAN, elementMatch \in BOOLEAN,
          err \in BOOLEAN :
          LET s == verifyRegistrationSuccess(urlMatch, textMatch, elementMatch, err)
          IN  /\ EndAttempt(Classify(hasUsernameError, hasPasswordError, s))
              /\ IF s
                 THEN /\ isSuccess' = TRUE
                      /\ pc' = "done"
                      /\ returned' = "true"
                      /\ \E rh \in RandomHex, nt \in NanoTimes :
                            userData' = [userData EXCEPT !.username =
                                            generateSequentialUsername(attempt, rh, nt)]
                      /\ UNCHANGED <<attempt, hasUsernameError,
                                     hasPasswordError, identities>>
                 ELSE \E rh \in RandomHex, nt \in NanoTimes :
                         LoopBack(IF attempt < maxAttempts
                                  THEN generateSequentialUsername(attempt, rh, nt)
                                  ELSE userData.username)

\* Verify that retries an attempt without success under the same username
VerifyKeepsName ==
    /\ pc = "verify"
    /\ UNCHANGED <<acted, thrown, runVars, logVars, probeVars, pageVars, classifyVars>>
    /\ \E urlMatch \in BOOLEAN, textMatch \in BOOLEAN, elementMatch \in BOOLEAN,
          err \in BOOLEAN :
          LET s == verifyRegistrationSuccess(urlMatch, textMatch, elementMatch, err)
          IN  /\ EndAttempt(Classify(hasUsernameError, hasPasswordError, s))
              /\ IF s
                 THEN /\ isSuccess' = TRUE
                      /\ pc' = "done"
                      /\ returned' = "true"
                      /\ UNCHANGED <<userData, attempt, hasUsernameError,
                                     hasPasswordError, identities>>
                 ELSE LoopBack(userData.username)

\* const isSuccess = await this.verifyRegistrationSuccess(...) and the rest of
\* the loop body
Verify ==
    /\ pc = "verify"
    /\ UNCHANGED <<acted, thrown, runVars, logVars, probeVars, pageVars, classifyVars>>
    /\ \E urlMatch \in BOOLEAN, textMatch \in BOOLEAN, elementMatch \in BOOLEAN,
          err \in BOOLEAN :
          LET s == verifyRegistrationSuccess(urlMatch, textMatch, elementMatch, err)
          IN  /\ EndAttempt(Classify(hasUsernameError, hasPasswordError, s))
              /\ IF s
                 THEN /\ isSuccess' = TRUE
                      /\ pc' = "done"
                      /\ returned' = "true"
                      /\ UNCHANGED <<userData, attempt, hasUsernameError,
                                     hasPasswordError, identities>>
                 ELSE \E rh \in RandomHex, nt \in NanoTimes :
                         LoopBack(IF attempt < maxAttempts
                                  THEN generateSequentialUsername(attempt, rh, nt)
                                  ELSE userData.username)

registerUser == Navigate \/ Fill \/ Submit \/ Inspect \/ Verify

(***************************************************************************)
(* The tests: every test builds a fresh userData in beforeEach and calls   *)
(* registerUser once                                                       *)
(***************************************************************************)
\* the next test of the suite calls registerUser
NextTest ==
    /\ pc = "done"
    /\ run < MaxRuns
    /\ run' = run + 1
    /\ priorFailure' = IF returned = "false" THEN lastSignal ELSE priorFailure
    /\ userData' \in FreshUserData
    /\ attempt' = 1
    /\ pc' = "navigate"
    /\ returned' = "none"
    /\ hasUsernameError' = FALSE
    /\ hasPasswordError' = FALSE
    /\ isSuccess' = FALSE
    /\ thrown' = FALSE
    /\ identities' = <<userData'.username>>
    /\ acted' = 0
    /\ lastSignal' = "none"
    /\ earlier' = "none"
    /\ UNCHANGED <<logVars, probeVars, pageVars, classifyVars>>

(***************************************************************************)
(* ApiHelper: the captured-call log                                        *)
(***************************************************************************)
\* the account and the amount of the payment under test
AccountNumber == "13344"

PaymentAmount == "35.68"

PageBase == "https://parabank.parasoft.com/parabank/"

\* the requests the page makes while the bill is paid: request.url() and
\* request.method()
PageRequests ==
    {[url |-> PageBase \o "services_proxy/bank/billpay?accountId=13344&amount=35.68",
      method |-> "POST"],
     [url |-> PageBase \o "services_proxy/bank/accounts/13344/transactions",
      method |-> "OPTIONS"],
     [url |-> PageBase \o "template.css", method |-> "GET"]}

\* a transaction as the bank serves it
PaymentTx ==
    JObject(<<"id", "accountId", "type", "date", "amount", "description">>,
            [id |-> JNumber("14476"), accountId |-> JNumber("13344"),
             type |-> JString("Debit"), date |-> JString("2024-01-01"),
             amount |-> JNumber("35.68"), description |-> JString("Bill Payment")])

\* the answer of the bank to a bill payment
PaymentReceipt ==
    JObject(<<"payeeName", "amount", "accountId">>,
            [payeeName |-> JString("Electric Co"), amount |-> JNumber("35.68"),
             accountId |-> JNumber("13344")])

\* the responses the page receives: response.url(), response.status(), the
\* value of response.json(), NotJson when the body is not JSON, and
\* response.request().method(), the method of the request that was answered
PageResponses ==
    {[url |-> PageBase \o "services_proxy/bank/accounts/13344/transactions",
      status |-> 200, json |-> JArray(<<PaymentTx>>), method |-> "GET"],
     [url |-> PageBase \o "services_proxy/bank/billpay?accountId=13344&amount=35.68",
      status |-> 200, json |-> PaymentReceipt, method |-> "POST"],
     [url |-> PageBase \o "services_proxy/bank/accounts/13344/transactions",
      status |-> 404, json |-> JNull, method |-> "GET"],
     [url |-> PageBase \o "billpay.htm", status |-> 200, json |-> [t |-> "none"],
      method |-> "GET"]}

\* constructor: this.capturedEndpoints = []; this.jsonResponses = []
InitApiHelper ==
    /\ capturedEndpoints = <<>>
    /\ jsonResponses = <<>>

\* a store that puts the newest call first
storeCapturedEndpointNewestFirst(log, endpoint, method, data) ==
    [capturedEndpoints |->
        <<[endpoint |-> endpoint, method |-> method, data |-> data]>> \o log.capturedEndpoints,
     jsonResponses |->
        IF Truthy(data)
        THEN <<[endpoint |-> endpoint, method |-> method, response |-> data]>> \o log.jsonResponses
        ELSE log.jsonResponses]

\* storeCapturedEndpoint(endpoint, method, data) on the helper whose lists are
\* log: the lists after the call (timestamps are never read and are left out)
storeCapturedEndpoint(log, endpoint, method, data) ==
    [capturedEndpoints |->
        Append(log.capturedEndpoints, [endpoint |-> endpoint, method |-> method, data |-> data]),
     jsonResponses |->
        IF Truthy(data)
        THEN Append(log.jsonResponses, [endpoint |-> endpoint, method |-> method, response |-> data])
        ELSE log.jsonResponses]

\* one page event reaches every registered listener: each of the n listeners
\* calls storeCapturedEndpoint
RECURSIVE EachListener(_, _, _, _, _)
EachListener(n, log, endpoint, method, data) ==
    IF n = 0 THEN log
    ELSE EachListener(n - 1, storeCapturedEndpoint(log, endpoint, method, data),
                      endpoint, method, data)

\* this.capturedEndpoints and this.jsonResponses of the shared helper
ThisLog == [capturedEndpoints |-> capturedEndpoints, jsonResponses |-> jsonResponses]

\* BillPayPage.setupNetworkCapture: the filter of the request listener
RequestFilter(url) ==
    \/ Includes(url, "/services/") \/ Includes(url, "/api/")
    \/ Includes(url, "transaction") \/ Includes(url, "account")
    \/ Includes(url, "billpay") \/ Includes(url, "transfer")

\* BillPayPage.setupNetworkCapture: the filter of the response listener
ResponseFilter(url, status) ==
    /\ \/ Includes(url, "/services/") \/ Includes(url, "/api/")
       \/ Includes(url, "transaction") \/ Includes(url, "account")
    /\ status = 200

\* the requests that pass the filter of the request listener
CapturedRequests == {r \in PageRequests : RequestFilter(r.url)}

\* the responses that pass the filter of the response listener and whose
\* body parses as JSON
CapturedResponses ==
    {r \in PageResponses : ResponseFilter(r.url, r.status) /\ r.json.t # "none"}

\* the page and the test script before the first payBill
InitPage ==
    /\ listeners = 0
    /\ billPc = "idle"
    /\ logAtStart = 0
    /\ observed = <<>>

\* payBill, first step: navigateToBillPay calls setupNetworkCapture, which adds
\* a request listener and a response listener to the page, and loads the page.
\* A page with more listener pairs than the log has room for would capture
\* nothing here, so their number is capped by MaxCaptured.
navigateToBillPay ==
    /\ billPc \in {"idle", "paid"}
    /\ probePc \in {"idle", "done"}
    /\ listeners < MaxCaptured
    /\ listeners' = listeners + 1
    /\ billPc' = "paying"
    /\ UNCHANGED <<regVars, runVars, logVars, probeVars, logAtStart, observed, classifyVars>>

\* payBill, remaining steps: the form is filled, submitPayment waits for the
\* network to be idle and 3 seconds more, and payBill returns
submitPayment ==
    /\ billPc = "paying"
    /\ billPc' = "paid"
    /\ UNCHANGED <<regVars, runVars, logVars, probeVars, listeners, logAtStart, observed,
                   classifyVars>>

\* bookkeeping for a page event r that every registered listener stores: its
\* url and its method, once for each entry added to the log
Observe(r) ==
    observed \o [i \in 1..listeners |-> [endpoint |-> r.url, method |-> r.method]]

\* page.on('request', ...): the page makes a request; every registered
\* request listener stores it
OnRequest ==
    /\ listeners > 0
    /\ Len(capturedEndpoints) + listeners <= MaxCaptured
    /\ \E r \in CapturedRequests :
          LET after == EachListener(listeners, ThisLog, r.url, r.method, JNull)
          IN  /\ capturedEndpoints' = after.capturedEndpoints
              /\ jsonResponses' = after.jsonResponses
              /\ observed' = Observe(r)
    /\ UNCHANGED <<regVars, runVars, probeVars, listeners, billPc, logAtStart, classifyVars>>

\* page.on('response', ...): the page receives a response; every registered
\* response listener reads its JSON body and stores it
OnResponse ==
    /\ listeners > 0
    /\ Len(capturedEndpoints) + listeners <= MaxCaptured
    /\ \E r \in CapturedResponses :
          LET after == EachListener(listeners, ThisLog, r.url, "GET", r.json)
          IN  /\ capturedEndpoints' = after.capturedEndpoints
              /\ jsonResponses' = after.jsonResponses
              /\ observed' = Observe(r)
    /\ UNCHANGED <<regVars, runVars, probeVars, listeners, billPc, logAtStart, classifyVars>>

\* the next test of the describe block: beforeEach draws new test data, the
\* test gets a new page and a new BillPayPage, the helper made in beforeAll
\* is the same object
NextApiTest ==
    /\ billPc # "paying"
    /\ probePc \in {"idle", "done"}
    /\ run < MaxRuns
    /\ run' = run + 1
    /\ listeners' = 0
    /\ billPc' = "idle"
    /\ logAtStart' = Len(capturedEndpoints)
    /\ UNCHANGED <<regVars, priorFailure, logVars, probeVars, observed, classifyVars>>

(***************************************************************************)
(* ApiHelper: the answers of the target to requestContext.get / post       *)
(***************************************************************************)
NotJson == [t |-> "none"]

\* a body that is JSON text
JsonBody(text, json) == [readable |-> TRUE, text |-> text, json |-> json]

\* a body that is not JSON
TextBody(text) == [readable |-> TRUE, text |-> text, json |-> NotJson]

\* a body that cannot be read at all
Unreadable == [readable |-> FALSE, text |-> "", json |-> NotJson]

Bodies ==
    {JsonBody("[{\"id\":14476,\"amount\":35.68}]", JArray(<<PaymentTx>>)),
     JsonBody("[null]", JArray(<<JNull>>)),
     JsonBody("[{\"id\":14476,\"amount\":35.68},null]", JArray(<<PaymentTx, JNull>>)),
     TextBody("<html><td>13344</td><td>$35.68</td></html>"),
     TextBody("<html><h1>Error</h1></html>"),
     Unreadable}

\* the request threw (network error, timeout)
RequestError == [threw |-> TRUE, status |-> 0, body |-> Unreadable]

\* what a request can yield: an error, a 200 answer with any body, a 201
\* answer with a JSON body, a 404 answer with an error page
Responses ==
    {RequestError}
    \cup {[threw |-> FALSE, status |-> 200, body |-> b] : b \in Bodies}
    \cup {[threw |-> FALSE, status |-> 201,
           body |-> JsonBody("[{\"id\":14476,\"amount\":35.68}]", JArray(<<PaymentTx>>))],
          [threw |-> FALSE, status |-> 404, body |-> TextBody("<html><h1>Error</h1></html>")]}

\* await response.json() throws
JsonThrows(body) == ~body.readable \/ body.json = NotJson

\* await response.text() throws
TextThrows(body) == ~body.readable

(***************************************************************************)
(* ApiHelper.findTransactionsByAmount, getAccountDetails, getTransactions  *)
(***************************************************************************)
ProbeKinds == {"findTransactionsByAmount", "getAccountDetails", "getTransactions"}

NoResult == [kind |-> "none"]

InitProbe ==
    /\ probeKind = "none"
    /\ probePc = "idle"
    /\ candidates = <<>>
    /\ cursor = 1
    /\ probeResult = NoResult
    /\ probeThrown = FALSE
    /\ issued = <<>>
    /\ firstOk = 0
    /\ failedAll = TRUE
    /\ lastFailed = FALSE

\* the filter over this.capturedEndpoints at the top of findTransactionsByAmount
MatchesTransactions(ep, accountId) ==
    \/ Includes(ep.endpoint, "transaction")
    \/ Includes(ep.endpoint, "findtrans")
    \/ (Includes(ep.endpoint, "account") /\ Includes(ep.endpoint, accountId))

\* the urls the listeners can store that pass this filter for the account
\* under test (the filter reads nothing but the url of an entry)
MatchingCalls ==
    {u \in {r.url : r \in CapturedRequests \cup CapturedResponses} :
        MatchesTransactions([endpoint |-> u], AccountNumber)}

\* const transactionEndpoints = this.capturedEndpoints.filter(...)
transactionEndpoints(accountId) ==
    LET Test(ep) == IF accountId = AccountNumber
                    THEN ep.endpoint \in MatchingCalls
                    ELSE MatchesTransactions(ep, accountId)
    IN  SelectSeq(capturedEndpoints, Test)

\* the static endpoint lists of the three probes
fallbackEndpoints(kind, accountId) ==
    CASE kind = "findTransactionsByAmount" ->
            <<"/services/bank/accounts/" \o accountId \o "/transactions",
              "/services/bank/transactions/account/" \o accountId,
              "/activity.htm?id=" \o accountId,
              "/overview.htm",
              "/findtrans.htm">>
      [] kind = "getAccountDetails" ->
            <<"/services/bank/accounts/" \o accountId,
              "/activity.htm?id=" \o accountId,
              "/overview.htm">>
      [] kind = "getTransactions" ->
            <<"/services/bank/accounts/" \o accountId \o "/transactions",
              "/activity.htm?id=" \o accountId,
              "/findtrans.htm">>

\* the value returned when no candidate gave a result
NotFound(kind) ==
    [kind |-> "result", status |-> 404,
     data |-> IF kind = "getTransactions" THEN JArray(<<>>) ELSE JNull,
     endpoint |-> "none",
     analysis |->
        [validations |->
            <<[field |-> "response", status |-> "FAIL",
               reason |-> CASE kind = "findTransactionsByAmount" -> "No API endpoints returned data"
                            [] kind = "getAccountDetails" -> "No account endpoints returned data"
                            [] kind = "getTransactions" -> "No transaction endpoints returned data"]>>,
         summary |-> [passed |-> 0, failed |-> 1, missing |-> 0, info |-> 0]]]

\* the callback of jsonData.filter throws on a null element
FilterThrows(items) == \E i \in 1..Len(items) : items[i].t = "null"

\* the callback of jsonData.filter: the element matches the searched amount
AmountMatches(tx, amount) ==
    /\ HasField(tx, "amount")
    /\ Truthy(tx.val["amount"])
    /\ CloserThanCent(Abs(parseFloat(ToJsString(tx.val["amount"]))), parseFloat(amount))

\* let filteredData = ...
filteredData(jsonData, amount) ==
    IF jsonData.t # "array" THEN jsonData
    ELSE LET Test(tx) == AmountMatches(tx, amount)
             matches == SelectSeq(jsonData.items, Test)
         IN  IF Len(matches) > 0 THEN JArray(matches) ELSE jsonData

\* body of the loop over the captured endpoints: the value returned for the
\* candidate, NoResult when the loop goes on
CapturedResult(captured, resp, amount) ==
    IF captured.method \notin {"GET", "POST"} THEN NoResult
    ELSE IF resp.threw THEN NoResult
    ELSE IF resp.status # 200 THEN NoResult
    ELSE IF JsonThrows(resp.body) THEN NoResult
    ELSE IF analyzeJsonResponse(resp.body.json, captured.endpoint).threw THEN NoResult
    ELSE IF resp.body.json.t = "array" /\ FilterThrows(resp.body.json.items) THEN NoResult
    ELSE [kind |-> "result", status |-> resp.status,
          data |-> filteredData(resp.body.json, amount),
          endpoint |-> captured.endpoint,
          analysis |-> analyzeJsonResponse(resp.body.json, captured.endpoint),
          originalData |-> resp.body.json]

\* the value returned for an HTML answer
HtmlResult(kind, endpoint, resp, accountId, amount) ==
    IF kind = "findTransactionsByAmount"
    THEN [kind |-> "result", status |-> resp.status,
          data |-> [html |-> resp.body.text,
                    containsAccount |-> Includes(resp.body.text, accountId),
                    containsAmount |-> Includes(resp.body.text, amount)],
          endpoint |-> endpoint,
          analysis |->
             [type |-> "html",
              validations |->
                 <<[field |-> "response", status |-> "INFO", reason |-> "HTML response"],
                   [field |-> "accountReference",
                    status |-> IF Includes(resp.body.text, accountId) THEN "PASS" ELSE "FAIL",
                    value |-> Includes(resp.body.text, accountId)],
                   [field |-> "amountReference",
                    status |-> IF Includes(resp.body.text, amount) THEN "PASS" ELSE "FAIL",
                    value |-> Includes(resp.body.text, amount)]>>,
              summary |-> [passed |-> 0, failed |-> 0, missing |-> 0, info |-> 1]]]
    ELSE [kind |-> "result", status |-> resp.status,
          data |-> [html |-> resp.body.text],
          endpoint |-> endpoint,
          analysis |->
             [type |-> "html",
              validations |->
                 <<[field |-> "response", status |-> "INFO", reason |-> "HTML response"]>>,
              summary |-> [passed |-> 0, failed |-> 0, missing |-> 0, info |-> 1]]]

\* body of the loop over the static endpoints without the catch around the
\* request: an error of the request leaves the probe
FallbackResultNoCatch(kind, endpoint, resp, accountId, amount) ==
    IF resp.threw THEN [kind |-> "throw"]
    ELSE IF resp.status # 200 THEN NoResult
    ELSE IF ~JsonThrows(resp.body) /\ ~analyzeJsonResponse(resp.body.json, endpoint).threw
    THEN [kind |-> "result", status |-> resp.status,
          data |-> resp.body.json,
          endpoint |-> endpoint,
          analysis |-> analyzeJsonResponse(resp.body.json, endpoint)]
    ELSE IF TextThrows(resp.body) THEN NoResult
    ELSE HtmlResult(kind, endpoint, resp, accountId, amount)

\* body of the loop over the static endpoints: the value returned for the
\* endpoint, NoResult when the loop goes on
FallbackResult(kind, endpoint, resp, accountId, amount) ==
    IF resp.threw THEN NoResult
    ELSE IF resp.status # 200 THEN NoResult
    ELSE IF ~JsonThrows(resp.body) /\ ~analyzeJsonResponse(resp.body.json, endpoint).threw
    THEN [kind |-> "result", status |-> resp.status,
          data |-> resp.body.json,
          endpoint |-> endpoint,
          analysis |-> analyzeJsonResponse(resp.body.json, endpoint)]
    ELSE IF TextThrows(resp.body) THEN NoResult
    ELSE HtmlResult(kind, endpoint, resp, accountId, amount)

\* a failed candidate: the request threw or timed out, the status is not 2xx,
\* or no body could be read from the answer
FailedCandidate(requested, resp) ==
    \/ ~requested
    \/ resp.threw
    \/ resp.status \notin 200..299
    \/ ~resp.body.readable

\* a 2xx answer whose body parses as JSON
ParseableAnswer(requested, resp) ==
    /\ requested
    /\ ~resp.threw
    /\ resp.status \in 200..299
    /\ ~JsonThrows(resp.body)

\* bookkeeping for a candidate that has been tried
Track(entry, requested, resp) ==
    /\ issued' = Append(issued, entry)
    /\ firstOk' = IF firstOk = 0 /\ ParseableAnswer(requested, resp)
                  THEN Len(issued) + 1 ELSE firstOk
    /\ failedAll' = (failedAll /\ FailedCandidate(requested, resp))
    /\ lastFailed' = FailedCandidate(requested, resp)

\* entry of a probe: the snapshot of the matching captured calls is taken
StartProbe ==
    /\ probePc \in {"idle", "done"}
    /\ billPc # "paying"
    /\ \E kind \in ProbeKinds :
          /\ probeKind' = kind
          /\ candidates' = IF kind = "findTransactionsByAmount"
                           THEN transactionEndpoints(AccountNumber) ELSE <<>>
          /\ probePc' = IF kind = "findTransactionsByAmount"
                           /\ Len(transactionEndpoints(AccountNumber)) > 0
                        THEN "captured" ELSE "fallback"
    /\ cursor' = 1
    /\ probeResult' = NoResult
    /\ probeThrown' = FALSE
    /\ issued' = <<>>
    /\ firstOk' = 0
    /\ failedAll' = TRUE
    /\ lastFailed' = FALSE
    /\ UNCHANGED <<regVars, runVars, logVars, pageVars, classifyVars>>

\* one iteration of `for (const captured of transactionEndpoints)`
TryCaptured ==
    /\ probePc = "captured"
    /\ \E resp \in Responses :
          LET captured == candidates[cursor]
              requested == captured.method \in {"GET", "POST"}
              res == CapturedResult(captured, resp, PaymentAmount)
          IN  /\ Track([src |-> "captured", endpoint |-> captured.endpoint,
                        method |-> captured.method], requested, resp)
              /\ IF res.kind = "throw"
                 THEN /\ probeThrown' = TRUE
                      /\ probePc' = "done"
                      /\ UNCHANGED <<cursor, probeResult>>
                 ELSE IF res.kind = "result"
                 THEN /\ probeResult' = res
                      /\ probePc' = "done"
                      /\ UNCHANGED <<cursor, probeThrown>>
                 ELSE IF cursor < Len(candidates)
                 THEN /\ cursor' = cursor + 1
                      /\ UNCHANGED <<probePc, probeResult, probeThrown>>
                 ELSE /\ cursor' = 1
                      /\ probePc' = "fallback"
                      /\ UNCHANGED <<probeResult, probeThrown>>
    /\ UNCHANGED <<regVars, runVars, logVars, pageVars, classifyVars, probeKind, candidates>>

\* one iteration of the loop over the static endpoints; after the last one
\* the probe returns the 404 value
TryFallback ==
    /\ probePc = "fallback"
    /\ \E resp \in Responses :
          LET endpoint == fallbackEndpoints(probeKind, AccountNumber)[cursor]
              res == FallbackResult(probeKind, endpoint, resp, AccountNumber, PaymentAmount)
          IN  /\ Track([src |-> "fallback", endpoint |-> endpoint, method |-> "GET"],
                       TRUE, resp)
              /\ IF res.kind = "throw"
                 THEN /\ probeThrown' = TRUE
                      /\ probePc' = "done"
                      /\ UNCHANGED <<cursor, probeResult>>
                 ELSE IF res.kind = "result"
                 THEN /\ probeResult' = res
                      /\ probePc' = "done"
                      /\ UNCHANGED <<cursor, probeThrown>>
                 ELSE IF cursor < Len(fallbackEndpoints(probeKind, AccountNumber))
                 THEN /\ cursor' = cursor + 1
                      /\ UNCHANGED <<probePc, probeResult, probeThrown>>
                 ELSE /\ probeResult' = NotFound(probeKind)
                      /\ probePc' = "done"
                      /\ UNCHANGED <<cursor, probeThrown>>
    /\ UNCHANGED <<regVars, runVars, logVars, pageVars, classifyVars, probeKind, candidates>>

(***************************************************************************)
(* Direct calls of analyzeJsonResponse                                     *)
(***************************************************************************)
\* values of the amount field of a first item
AmountSamples ==
    {JString("35.68"), JNumber("35.68"), JString("-35.68"), JNumber("0"),
     JString("abc"), JString("12abc"), JString(""), JString("Infinity"),
     JNumber("Infinity"), JNull}

\* values of the accountId field of a first item
AccountIdSamples == {JNumber("13344"), JString("x13344")}

\* values of the date field of a first item
DateSamples == {JString("2024-01-01"), JString("yesterday")}

\* the object with the keys S, in the order of expected, whose amount,
\* accountId and date are a, c and d
ObjectOver(expected, S, a, c, d) ==
    JObject(LET In(f) == f \in S IN SelectSeq(expected, In),
            [f \in S |-> CASE f = "amount" -> a
                           [] f = "accountId" -> c
                           [] f = "date" -> d
                           [] f \in {"id", "customerId"} -> JNumber("14476")
                           [] f = "balance" -> JNumber("515.50")
                           [] OTHER -> JString("Debit")])

\* the objects whose keys are a subset of expected
ObjectsOver(expected) ==
    {ObjectOver(expected, S, a, c, d) :
        S \in SUBSET SeqToSet(expected),
        a \in AmountSamples, c \in AccountIdSamples, d \in DateSamples}

\* first items with fields outside transactionFields: alone, next to fields
\* of the schema, and named like a field of the schema in another case
ExtraFieldItems ==
    {JObject(<<"memo">>, [memo |-> JString("abc")]),
     JObject(<<"id", "amount", "balance", "Date">>,
             [id |-> JNumber("14476"), amount |-> JNumber("35.68"),
              balance |-> JString("n/a"), Date |-> JString("yesterday")]),
     JObject(<<"id", "accountId", "type", "date", "amount", "description", "memo">>,
             [id |-> JNumber("14476"), accountId |-> JNumber("13344"),
              type |-> JString("Debit"), date |-> JString("2024-01-01"),
              amount |-> JNumber("35.68"), description |-> JString("Bill Payment"),
              memo |-> JNull])}

\* what can follow the first item of an array
Tails == UNION {[1..n -> {PaymentTx, JNull}] : n \in 0..(MaxArrayLen - 1)}

\* the raw inputs: null, primitives, account objects, the empty array and
\* arrays whose first item is a transaction object, a number or null
ClassifyInputs ==
    {JNull, JNumber("42"), JString("OK"), JArray(<<>>)}
    \cup ObjectsOver(accountFields)
    \cup {JArray(<<first>> \o tail) :
            first \in ObjectsOver(transactionFields) \cup ExtraFieldItems
                        \cup {JNull, JNumber("5")},
            tail \in Tails}

\* analyzeJsonResponse(rawInput) on a helper whose state leaks into the
\* verdict: the endpoint defaults to the call captured last
AnalyzeRawFromLog ==
    /\ Len(verdicts) < MaxClassify
    /\ verdicts' = Append(verdicts,
          analyzeJsonResponse(rawInput,
              IF Len(capturedEndpoints) > 0
              THEN capturedEndpoints[Len(capturedEndpoints)].endpoint ELSE "unknown"))
    /\ calledAt' = Append(calledAt, [captured |-> capturedEndpoints # <<>>,
                                     probed |-> probePc = "done"])
    /\ UNCHANGED <<regVars, runVars, logVars, probeVars, pageVars, rawInput>>

\* a caller invokes analyzeJsonResponse(rawInput)
AnalyzeRaw ==
    /\ Len(verdicts) < MaxClassify
    /\ verdicts' = Append(verdicts, analyzeJsonResponse(rawInput, "unknown"))
    /\ calledAt' = Append(calledAt, [captured |-> capturedEndpoints # <<>>,
                                     probed |-> probePc = "done"])
    /\ UNCHANGED <<regVars, runVars, logVars, probeVars, pageVars, rawInput>>

(***************************************************************************)
(* Specifications                                                          *)
(***************************************************************************)
InitObjects ==
    /\ InitRegister
    /\ run = 1
    /\ priorFailure = "none"
    /\ InitApiHelper
    /\ InitProbe
    /\ InitPage
    /\ verdicts = <<>>
    /\ calledAt = <<>>

Init ==
    /\ InitObjects
    /\ rawInput = JNull

\* one call of registerUser
Next == registerUser

Spec == Init /\ [][Next]_vars

\* the calls of registerUser made by successive tests
NextRuns == registerUser \/ NextTest

SpecRuns == Init /\ [][NextRuns]_vars

\* the page traffic observed while the bill is paid and the probes of ApiHelper
NextProbe ==
    \/ navigateToBillPay \/ submitPayment \/ OnRequest \/ OnResponse
    \/ StartProbe \/ TryCaptured \/ TryFallback

SpecProbe == Init /\ [][NextProbe]_vars

\* the tests of the describe block one after the other, sharing the helper
NextSuite == NextProbe \/ NextApiTest

SpecSuite == Init /\ [][NextSuite]_vars

\* analyzeJsonResponse called on any raw input
InitClassify ==
    /\ InitObjects
    /\ rawInput \in ClassifyInputs

NextClassify == AnalyzeRaw

SpecClassify == InitClassify /\ [][NextClassify]_vars

\* analyzeJsonResponse called again on the same input after bill payments,
\* captured responses and the probes that a captured call answers
TwiceInputs == {JNull, JArray(<<>>), JArray(<<PaymentTx>>),
                JObject(<<"id">>, [id |-> JNumber("14476")])}

InitTwice ==
    /\ InitObjects
    /\ rawInput \in TwiceInputs

NextTwice ==
    \/ AnalyzeRaw
    \/ navigateToBillPay \/ submitPayment \/ OnResponse
    \/ StartProbe \/ TryCaptured

SpecTwice == InitTwice /\ [][NextTwice]_vars

(***************************************************************************)
(* Properties of registerUser                                              *)
(***************************************************************************)
\* number of attempts that have ended
Finished == IF pc = "done" THEN Len(identities) ELSE Len(identities) - 1

\* every attempt that has ended gave the signal sig
AllSignals(sig) == lastSignal = sig /\ earlier \in {"none", sig}

Distinct(seq) == \A i, j \in 1..Len(seq) : i # j => seq[i] # seq[j]

\* C1: the attempt number starts at 1, grows by exactly 1 from one attempt to
\* the next and never exceeds maxAttempts; no navigation, fill or submit is
\* performed for an attempt numbered above maxAttempts.
C1_AttemptBounded ==
    /\ attempt = 1
    /\ [](/\ acted <= maxAttempts
          /\ attempt >= 1
          /\ pc # "done" => attempt <= maxAttempts
          /\ Len(identities) <= maxAttempts)
    /\ [][/\ attempt' \in {attempt, attempt + 1}
          /\ acted' \in {acted, acted + 1}
          /\ acted' # acted => acted' = attempt]_vars

\* C1 witness: the tenth attempt is made and the loop then ends
C1_Witness == pc = "done" /\ returned = "false" /\ acted = maxAttempts

\* C2: if every attempt ends in a username conflict, registerUser returns
\* false after exactly maxAttempts attempts whose usernames are pairwise
\* distinct.
C2_AlwaysConflictFails ==
    (pc = "done" /\ AllSignals("conflict"))
        => /\ returned = "false"
           /\ Finished = maxAttempts
           /\ Distinct(identities)

\* C3: conflict on attempts 1 and 2 and success on attempt 3 make
\* registerUser return true after exactly 3 attempts, the username of
\* attempt 3 differing from those of attempts 1 and 2.
C3_ConflictTwiceThenSuccess ==
    (Finished = 3 /\ earlier = "conflict" /\ lastSignal = "success")
        => /\ pc = "done"
           /\ returned = "true"
           /\ Len(identities) = 3
           /\ identities[3] # identities[1]
           /\ identities[3] # identities[2]

\* C3 witness: the scripted run has happened
C3_Witness ==
    /\ pc = "done" /\ returned = "true" /\ attempt = 3
    /\ earlier = "conflict" /\ lastSignal = "success"

\* C4: an attempt on which the conflict indicator or the password-error
\* indicator is detected never makes registerUser return true.
C4_ErrorIndicatorNeverSuccess ==
    returned = "true" => ~hasUsernameError /\ ~hasPasswordError

\* C5: a success indicator detected on an attempt without conflict and
\* without password error makes registerUser return true at once; nothing
\* of the call's state changes afterwards.
C5_SuccessReturnsImmediately ==
    /\ []((isSuccess /\ ~hasUsernameError /\ ~hasPasswordError)
             => (pc = "done" /\ returned = "true"))
    /\ [][returned = "true" => UNCHANGED regVars]_vars

\* C5 witness: success detected before the last attempt
C5_Witness ==
    /\ returned = "true" /\ isSuccess /\ attempt < maxAttempts
    /\ ~hasUsernameError /\ ~hasPasswordError

\* C6: a caller can tell the exhaustion reasons apart from the returned
\* value alone: two calls that hand back the same failure value ended on the
\* same signal.
C6_FailureCarriesCause ==
    (pc = "done" /\ returned = "false" /\ priorFailure # "none")
        => lastSignal = priorFailure

\* C7: an adapter error on every attempt is given maxAttempts attempts and
\* then reaches the caller as an exception.
C7_FatalErrorPropagated ==
    (pc = "done" /\ AllSignals("error"))
        => (Finished = maxAttempts /\ thrown)

(***************************************************************************)
(* Properties of the probes                                                *)
(***************************************************************************)
\* number of candidates of the running probe: the matching captured calls
\* and the static endpoints
NumCandidates == Len(candidates) + Len(fallbackEndpoints(probeKind, AccountNumber))

\* the probe has returned the 404 value
ReturnedNotFound == probePc = "done" /\ ~probeThrown /\ probeResult = NotFound(probeKind)

\* C8: in findTransactionsByAmount, once a matching captured call has
\* answered 2xx with a parseable body, the probe has returned the verdict for
\* that call, no static fallback endpoint has been requested and no candidate
\* after that call has been requested.
C8_CapturedSuccessWins ==
    (/\ probeKind = "findTransactionsByAmount"
     /\ firstOk > 0
     /\ issued[firstOk].src = "captured")
        => /\ probePc = "done"
           /\ probeResult.kind = "result"
           /\ probeResult.status \in 200..299
           /\ probeResult.endpoint = issued[firstOk].endpoint
           /\ Len(issued) = firstOk
           /\ \A i \in 1..Len(issued) : issued[i].src # "fallback"

\* C9: no probe ever throws to its caller, and after a candidate that failed
\* (the request threw or timed out, the status is not 2xx, the body cannot be
\* read) the probe goes on with the next candidate, or returns the 404 value
\* when that candidate was the last one.
C9_FailedCandidateNotFatal ==
    /\ [](~probeThrown)
    /\ [][(Len(issued') = Len(issued) + 1 /\ lastFailed')
            => /\ ~probeThrown'
               /\ Len(issued') < NumCandidates
                     => /\ probePc' \in {"captured", "fallback"}
                        /\ probeResult' = NoResult
               /\ Len(issued') = NumCandidates
                     => /\ probePc' = "done"
                        /\ probeResult'.status = 404]_vars

\* C9 witness: findTransactionsByAmount has gone through a failed captured
\* call and a failed static endpoint and is at the next static endpoint
C9_Witness ==
    /\ probeKind = "findTransactionsByAmount"
    /\ probePc = "fallback"
    /\ Len(issued) >= 2
    /\ issued[1].src = "captured"
    /\ issued[Len(issued)].src = "fallback"
    /\ failedAll
    /\ lastFailed
    /\ ~probeThrown

\* C10: a probe that has returned gives the 404 value exactly when every
\* candidate has been tried and has failed; the 404 value has status 404,
\* endpoint 'none', no data and a single FAIL check.
C10_NotFoundExactlyWhenAllFailed ==
    (probePc = "done" /\ ~probeThrown)
        => /\ ReturnedNotFound <=> (Len(issued) = NumCandidates /\ failedAll)
           /\ ReturnedNotFound
                 => /\ probeResult.status = 404
                    /\ probeResult.endpoint = "none"
                    /\ probeResult.data \in {JNull, JArray(<<>>)}
                    /\ Len(probeResult.analysis.validations) = 1
                    /\ probeResult.analysis.validations[1].status = "FAIL"

(***************************************************************************)
(* Properties of analyzeJsonResponse                                       *)
(***************************************************************************)
\* the verdicts returned so far
Returned == {verdicts[i] : i \in 1..Len(verdicts)}

\* a presence check: MISSING, or the PASS pushed by the forEach over the
\* expected fields (the PASS of a value check carries `validation`)
IsPresenceCheck(c) ==
    c.status = "MISSING" \/ (c.status = "PASS" /\ "validation" \notin DOMAIN c)

\* the positions of the checks of v that satisfy Test and are about field
ChecksAbout(v, field, Test(_)) ==
    {i \in 1..Len(v.validations) : v.validations[i].field = field /\ Test(v.validations[i])}

\* C11: analyzeJsonResponse(null) returns a verdict of the null shape (its
\* data is null, it is not an array) with exactly one check, whose field is
\* 'response' and whose status is FAIL.
C11_NullVerdict ==
    rawInput = JNull
        => \A v \in Returned :
              /\ ~v.threw
              /\ v.data = JNull
              /\ ~v.isArray
              /\ Len(v.validations) = 1
              /\ v.validations[1].field = "response"
              /\ v.validations[1].status = "FAIL"

\* C11 witness: analyzeJsonResponse(null) has returned
C11_Witness == rawInput = JNull /\ Len(verdicts) >= 1 /\ ~verdicts[1].threw

\* C12: analyzeJsonResponse([]) returns exactly one check, of status INFO,
\* and the summary passed=0, failed=0, missing=0, info=1.
C12_EmptyArrayVerdict ==
    rawInput = JArray(<<>>)
        => \A v \in Returned :
              /\ ~v.threw
              /\ Len(v.validations) = 1
              /\ v.validations[1].status = "INFO"
              /\ v.summary = [passed |-> 0, failed |-> 0, missing |-> 0, info |-> 1]

\* C12 witness: analyzeJsonResponse([]) has returned
C12_Witness ==
    /\ rawInput = JArray(<<>>)
    /\ Len(verdicts) >= 1
    /\ verdicts[1].isArray
    /\ verdicts[1].summary.info = 1

\* the array inputs whose first element is an object with at least one key
HasNonEmptyFirst ==
    /\ rawInput.t = "array"
    /\ Len(rawInput.items) > 0
    /\ rawInput.items[1].t = "object"
    /\ Len(rawInput.items[1].keys) > 0

\* C13: for an array whose first element is a non-empty object, every field
\* of transactionFields has exactly one presence check, PASS when the first
\* element has the field and MISSING when it has not, and no field has both
\* a PASS and a MISSING check.
C13_PresenceChecks ==
    HasNonEmptyFirst
        => \A v \in Returned :
              /\ ~v.threw
              /\ \A f \in SeqToSet(transactionFields) :
                    LET Pass(c) == c.status = "PASS"
                        Missing(c) == c.status = "MISSING"
                        presence == ChecksAbout(v, f, IsPresenceCheck)
                    IN  /\ Cardinality(presence) = 1
                        /\ \A i \in presence :
                              v.validations[i].status =
                                 IF HasField(rawInput.items[1], f) THEN "PASS" ELSE "MISSING"
                        /\ ~(ChecksAbout(v, f, Pass) # {} /\ ChecksAbout(v, f, Missing) # {})

\* C13 witness: a verdict for a first element that has some of the fields
\* and lacks others
C13_Witness ==
    /\ HasNonEmptyFirst
    /\ Len(verdicts) >= 1
    /\ HasField(rawInput.items[1], "amount")
    /\ ~HasField(rawInput.items[1], "date")
    /\ verdicts[1].summary.missing >= 1
    /\ verdicts[1].summary.passed >= 1

IsFiniteDecimal(s) ==
    LET b == SkipSign(s, 1)
        c == SkipDigits(s, b)
        d == IF CharAt(s, c) = "." THEN SkipDigits(s, c + 1) ELSE c
    IN  /\ ~(c = b /\ d <= c + 1)
        /\ d = Len(s) + 1

\* C16: the value check of the amount is PASS exactly when the amount of the
\* first element is a finite decimal number, and FAIL otherwise; for '35.68'
\* the parsed value is 35.68.
C16_AmountPassIffFiniteDecimal ==
    (HasNonEmptyFirst /\ HasField(rawInput.items[1], "amount"))
        => \A v \in Returned :
              LET ValueCheck(c) == ~IsPresenceCheck(c)
                  amount == ToJsString(rawInput.items[1].val["amount"])
              IN  /\ Cardinality(ChecksAbout(v, "amount", ValueCheck)) = 1
                  /\ \A i \in ChecksAbout(v, "amount", ValueCheck) :
                        /\ v.validations[i].status =
                              IF IsFiniteDecimal(amount) THEN "PASS" ELSE "FAIL"
                        /\ amount = "35.68" => v.validations[i].value = Num(35680)

(***************************************************************************)
(* Properties of the verdicts, the capture log and the page                *)
(***************************************************************************)
\* C14: in every value a probe returns, the summary of the analysis is the
\* count of its checks by status.
C14_SummaryIsFold ==
    (probePc = "done" /\ probeResult.kind = "result")
        => /\ "summary" \in DOMAIN probeResult.analysis
           /\ probeResult.analysis.summary = Summarize(probeResult.analysis.validations)

\* seq is an initial part of longer
IsPrefix(seq, longer) ==
    Len(seq) <= Len(longer) /\ SubSeq(longer, 1, Len(seq)) = seq

\* C17: every step keeps the entries of capturedEndpoints and jsonResponses
\* in place and at most adds entries at the end, and the steps of the
\* probes leave both lists as they are.
C17_LogAppendOnly ==
    [][/\ IsPrefix(capturedEndpoints, capturedEndpoints')
       /\ IsPrefix(jsonResponses, jsonResponses')
       /\ probeVars' # probeVars => UNCHANGED logVars]_vars

\* C17 witness: a probe has run on a log that was appended to twice
C17_Witness ==
    /\ Len(capturedEndpoints) >= 2
    /\ Len(jsonResponses) >= 1
    /\ capturedEndpoints[1] # capturedEndpoints[2]
    /\ probePc = "done"
    /\ Len(issued) >= 1

C19_CaptureOnlyDuringPayBill ==
    [][Len(capturedEndpoints') > Len(capturedEndpoints)
          => billPc = "paying" /\ probePc \notin {"captured", "fallback"}]_vars

\* C20: the page never has more than one request listener and one response
\* listener, and one page event adds at most one entry to capturedEndpoints.
C20_OneObserver ==
    /\ [](listeners <= 1)
    /\ [][Len(capturedEndpoints') <= Len(capturedEndpoints) + 1]_vars

(***************************************************************************)
(* Properties of the order of the candidates                               *)
(***************************************************************************)
\* the number of captured calls the running probe has tried
NumCapturedIssued == Cardinality({i \in 1..Len(issued) : issued[i].src = "captured"})

\* C21: a probe tries the matching captured calls most recent first (the
\* i-th captured call it requests is the i-th from the end of the matching
\* part of the log), every captured call before any static endpoint, and the
\* static endpoints in the order they are declared.
C21_MostRecentFirst ==
    /\ \A i \in 1..Len(issued) :
          issued[i].src = "captured"
             => /\ i <= Len(candidates)
                /\ issued[i].endpoint = candidates[Len(candidates) + 1 - i].endpoint
                /\ issued[i].method = candidates[Len(candidates) + 1 - i].method
    /\ \A i \in 1..Len(issued) :
          issued[i].src = "fallback"
             => /\ i > NumCapturedIssued
                /\ issued[i].endpoint =
                      fallbackEndpoints(probeKind, AccountNumber)[i - NumCapturedIssued]

\* C22: whenever a candidate, captured or static, answers 2xx with a body
\* that does not parse (the step tries a candidate that neither failed nor
\* gave a parseable answer), the probe returns at once a verdict of the
\* markup shape with exactly two checks, accountReference and
\* amountReference, each PASS exactly when the account id, respectively the
\* amount, occurs in the body.
C22_MarkupVerdict ==
    [][(/\ Len(issued') = Len(issued) + 1
        /\ firstOk = 0
        /\ firstOk' = 0
        /\ ~lastFailed')
          => /\ probePc' = "done"
             /\ probeResult'.kind = "result"
             /\ "type" \in DOMAIN probeResult'.analysis
             /\ probeResult'.analysis.type = "html"
             /\ Len(probeResult'.analysis.validations) = 2
             /\ probeResult'.analysis.validations[1].field = "accountReference"
             /\ probeResult'.analysis.validations[1].status = "PASS"
                   <=> Includes(probeResult'.data.html, AccountNumber)
             /\ probeResult'.analysis.validations[2].field = "amountReference"
             /\ probeResult'.analysis.validations[2].status = "PASS"
                   <=> Includes(probeResult'.data.html, PaymentAmount)]_vars

(***************************************************************************)
(* Properties of the check sequence                                        *)
(***************************************************************************)
\* the fields that get a value check, in the order of the code
secondaryFields == <<"amount", "accountId", "date">>

\* the check sequence of a verdict for an array whose first element is first:
\* the six presence checks in the order of transactionFields, then one value
\* check for each of amount, accountId and date that first has, in this order
\* and for no other field; every field of first is in the field inventory
IsCheckSequenceFor(v, first) ==
    LET Present(f) == HasField(first, f)
        present == SelectSeq(secondaryFields, Present)
    IN  /\ Len(v.validations) = 6 + Len(present)
        /\ Len(v.validations) \in 6..9
        /\ \A i \in 1..6 :
              /\ IsPresenceCheck(v.validations[i])
              /\ v.validations[i].field = transactionFields[i]
        /\ \A i \in 1..Len(present) :
              /\ ~IsPresenceCheck(v.validations[6 + i])
              /\ v.validations[6 + i].status \in {"PASS", "FAIL"}
              /\ v.validations[6 + i].field = present[i]
        /\ \A k \in SeqToSet(Keys(first)) :
              /\ k \in SeqToSet(v.fields)
              /\ k \in DOMAIN v.structure
              /\ k \notin SeqToSet(transactionFields)
                    => \A i \in 1..Len(v.validations) : v.validations[i].field # k

\* C23: every call of analyzeJsonResponse on a non-empty array returns a
\* verdict whose check sequence is the six presence checks followed by one
\* value check for each of amount, accountId and date present in the first
\* element (6 to 9 checks), with no value check for an absent field and no
\* check for a field outside the schema, which is only put in the inventory.
C23_CheckSequence ==
    (rawInput.t = "array" /\ Len(rawInput.items) > 0)
        => \A v \in Returned :
              /\ ~v.threw
              /\ IsCheckSequenceFor(v, rawInput.items[1])

(***************************************************************************)
(* Properties of the retry branches of registerUser                        *)
(***************************************************************************)
\* name ends with the seed suffix of attempt n: the letter a and the number
EndsWithSeed(name, n) ==
    LET suffix == "a" \o ToString(n)
    IN  /\ Len(name) > Len(suffix)
        /\ SubSeq(name, Len(name) - Len(suffix) + 1, Len(name)) = suffix

C25_PasswordRetryKeepsIdentity ==
    /\ [][(pc = "inspect" /\ attempt < maxAttempts /\ pc' = "verify")
             => ~hasPasswordError']_vars
    /\ [][(pc = "inspect" /\ attempt' = attempt + 1 /\ lastSignal' = "password")
             => /\ attempt < maxAttempts
                /\ pc' = "navigate"
                /\ returned' = "none"
                /\ userData' = userData
                /\ identities' = Append(identities, userData.username)]_vars
    /\ []((pc = "done" /\ lastSignal = "password") => returned = "false")

C28_UsernameOfFinalAttempt ==
    /\ []((pc = "done" /\ returned = "true")
             => /\ isSuccess
                /\ acted = attempt
                /\ Len(identities) = attempt
                /\ userData.username = identities[attempt])
    /\ []((pc = "done" /\ returned = "false")
             => /\ Len(identities) = maxAttempts
                /\ userData.username = identities[maxAttempts])
    /\ [][attempt' = attempt => userData' = userData]_vars

\* C28 witness: true is returned on the second attempt, made under the
\* username drawn after a first attempt without any signal
C28_Witness ==
    /\ pc = "done" /\ returned = "true" /\ attempt = 2 /\ acted = 2
    /\ earlier = "undetermined" /\ lastSignal = "success"
    /\ userData.username = identities[2]
    /\ EndsWithSeed(userData.username, 1)

(***************************************************************************)
(* Properties of the recorded method                                       *)
(***************************************************************************)
\* C29: every entry of capturedEndpoints has the url and the HTTP method of
\* the request or response that was observed when it was added.
C29_MethodAsObserved ==
    /\ Len(observed) = Len(capturedEndpoints)
    /\ \A i \in 1..Len(capturedEndpoints) :
          /\ capturedEndpoints[i].endpoint = observed[i].endpoint
          /\ capturedEndpoints[i].method = observed[i].method

(***************************************************************************)
(* Properties of the totality of analyzeJsonResponse                       *)
(***************************************************************************)
\* C30: analyzeJsonResponse returns a verdict for every parsed JSON value
\* (null, a primitive, an object, the empty array, an array whose first
\* element is an object, a primitive or null): no call throws, and every
\* verdict has its list of checks.
C30_ClassifierTotal ==
    \A i \in 1..Len(verdicts) :
        /\ ~verdicts[i].threw
        /\ Len(verdicts[i].validations) >= 1

====
